---- MODULE Spec2Model ----
(***************************************************************************)
(* State-machine model of Passenger.py: the probe that runs                *)
(* passenger-status and passenger-memory-stats, scrapes their text with    *)
(* regular expressions and merges the two metric groups in run().          *)
(*                                                                         *)
(* Text representation.  Digit strings and decimal figures are sequences   *)
(* of one-character strings, so that \d+, \d+\.?\d+, int() and float()     *)
(* are computed character by character.  The pool-status text is a         *)
(* sequence of "label <spaces>:<spaces> value" fields; the memory-stats    *)
(* text is a sequence of lines.  An optional value (None or a number) is   *)
(* << >> or <<n>>; a float is held in hundredths of a megabyte.            *)
(***************************************************************************)
EXTENDS Integers, Sequences, FiniteSets, TLC

VARIABLES entry, pc, cmd_status, out, stats, in_passenger_processes, idx,
          run_stats, log, cmds, exc

vars == <<entry, pc, cmd_status, out, stats, in_passenger_processes, idx,
          run_stats, log, cmds, exc>>

(* ---------------------------- bounds ---------------------------------- *)
\* lengths of the generated command outputs when one operation is called
MaxHeader == 2
MaxProcs == 3
MaxLines == 3
\* lengths of the generated command outputs when run() calls both
RunMaxFields == 1
RunMaxLines == 1

(* --------------------------- constants -------------------------------- *)
PASSENGER_STATUS_CMD == "sudo passenger-status | sed -r STRIP_COLOUR"
PASSENGER_MEMORY_STATS_CMD == "sudo passenger-memory-stats | sed -r STRIP_COLOUR"

None == << >>
Some(v) == <<v>>

StatusKeys == {"max_pool_size", "processes", "requests_in_top_queue",
               "active_sessions", "available_pool_size",
               "total_processed_count"}
MemoryKeys == {"passenger_watchdog_rss_mb", "passenger_helper_agent_rss_mb",
               "passenger_logging_agent_rss_mb", "total_private_dirty_rss_mb"}

\* the dict literals of get_passenger_status and get_passenger_memory_stats
InitialStatusStats == [k \in StatusKeys |-> None]
InitialMemoryStats == [k \in MemoryKeys |-> None]

\* a slip that recognises exit code 1 only, not the wait status Python 2 reports
CommandFailedMutant(status) == status = 1

\* "if status != 0" after commands.getstatusoutput
CommandFailed(status) == status # 0

\* a slip that replaces the dict instead of merging into it
UpdateMutant(d, e) == e

\* dict.update: keys of e are added to d, e wins on a collision
Update(d, e) ==
  [k \in (DOMAIN d) \cup (DOMAIN e) |-> IF k \in DOMAIN e THEN e[k] ELSE d[k]]

(* ------------------------ characters and numbers ---------------------- *)
Digits == {"0", "1", "2", "3", "4", "5", "6", "7", "8", "9"}

DigitVal(c) ==
  CASE c = "0" -> 0 [] c = "1" -> 1 [] c = "2" -> 2 [] c = "3" -> 3
    [] c = "4" -> 4 [] c = "5" -> 5 [] c = "6" -> 6 [] c = "7" -> 7
    [] c = "8" -> 8 [] c = "9" -> 9

AllDigits(s) == \A i \in 1..Len(s) : s[i] \in Digits

\* the text \d+ matches at the start of s (greedy): its leading digit run
RECURSIVE LeadingDigits(_)
LeadingDigits(s) ==
  IF s = << >> \/ Head(s) \notin Digits THEN << >>
  ELSE <<Head(s)>> \o LeadingDigits(Tail(s))

\* int() of a digit string
RECURSIVE IntOf(_)
IntOf(s) ==
  IF s = << >> THEN 0
  ELSE IntOf(SubSeq(s, 1, Len(s) - 1)) * 10 + DigitVal(s[Len(s)])

\* the whole of s matches \d+\.?\d+ : digits, an optional dot, digits
IsFigure(s) ==
  \E i \in 1..(Len(s) - 1) :
    /\ AllDigits(SubSeq(s, 1, i))
    /\ \/ AllDigits(SubSeq(s, i + 1, Len(s)))
       \/ /\ s[i + 1] = "."
          /\ i + 2 <= Len(s)
          /\ AllDigits(SubSeq(s, i + 2, Len(s)))

DotAt(s) == IF \E i \in 1..Len(s) : s[i] = "."
            THEN CHOOSE i \in 1..Len(s) : s[i] = "."
            ELSE Len(s) + 1

\* float() of a figure, in hundredths (figures carry at most two decimals)
FloatOf(s) ==
  LET d == DotAt(s)
      whole == SubSeq(s, 1, d - 1)
      frac == SubSeq(s, d + 1, Len(s))
  IN IntOf(whole) * 100
       + (IF Len(frac) = 0 THEN 0
          ELSE IF Len(frac) = 1 THEN IntOf(frac) * 10
          ELSE IntOf(SubSeq(frac, 1, 2)))

(* ------------------------ pool-status text ---------------------------- *)
\* one "label <pre spaces>:<post spaces> value" occurrence of the text
Field(key, pre, post, val) ==
  [key |-> key, pre |-> pre, post |-> post, val |-> val]

\* 'Max pool size +: +(\d+)', 'Processes +: +(\d+)',
\* 'Requests in top-level queue +: +(\d+)': spaces on both sides of the colon
MatchSpaced(key, f) ==
  /\ f.key = key
  /\ f.pre >= 1
  /\ f.post >= 1
  /\ LeadingDigits(f.val) # << >>

\* 'Sessions: +(\d+)', 'Processed: +(\d+)': colon right after the label
MatchTight(key, f) ==
  /\ f.key = key
  /\ f.pre = 0
  /\ f.post >= 1
  /\ LeadingDigits(f.val) # << >>

\* match.group(1) converted by int()
GroupInt(f) == IntOf(LeadingDigits(f.val))

\* re.search(...) then int(match.group(1)): the first match, None without one
SearchSpaced(key, text) ==
  IF \E i \in 1..Len(text) : MatchSpaced(key, text[i])
  THEN LET i == CHOOSE i \in 1..Len(text) :
                  /\ MatchSpaced(key, text[i])
                  /\ \A j \in 1..(i - 1) : ~MatchSpaced(key, text[j])
       IN Some(GroupInt(text[i]))
  ELSE None

\* a slip that adds the first occurrence only (re.search for re.findall)
SumFindallMutant(key, text) ==
  IF \E i \in 1..Len(text) : MatchTight(key, text[i])
  THEN GroupInt(text[CHOOSE i \in 1..Len(text) :
                       /\ MatchTight(key, text[i])
                       /\ \A j \in 1..(i - 1) : ~MatchTight(key, text[j])])
  ELSE 0

\* the accumulation loop over re.findall(...), starting from 0
RECURSIVE SumFindall(_, _)
SumFindall(key, text) ==
  IF text = << >> THEN 0
  ELSE (IF MatchTight(key, Head(text)) THEN GroupInt(Head(text)) ELSE 0)
         + SumFindall(key, Tail(text))

\* stats['max_pool_size'] - stats['active_sessions']: defined on numbers only
CanSubtract(a, b) == a # None /\ b # None

(* ------------------------ memory-stats text --------------------------- *)
\* one line of the text.  kind "proc": "<pid> <virt> MB <res> MB<gap spaces>
\* <text>"; kind "banner": "<indent spaces>--- <text> ---"; kind "total":
\* "<indent spaces><text> <res> MB"
Line(kind, indent, pid, virt, res, gap, text) ==
  [kind |-> kind, indent |-> indent, pid |-> pid, virt |-> virt, res |-> res,
   gap |-> gap, text |-> text]

ProcLine(pid, virt, res, gap, label) ==
  Line("proc", 0, pid, virt, res, gap, label)
BannerLine(indent, phrase) ==
  Line("banner", indent, << >>, << >>, << >>, 1, phrase)
TotalLine(indent, fig) ==
  Line("total", indent, << >>, << >>, fig, 1, "### Total private dirty RSS:")

\* '\d+ +\d+\.?\d+ MB +(\d+\.?\d+) MB + <label>' found in line l: the pid
\* ends in a digit, both figures have the \d+\.?\d+ shape and at least two
\* spaces (" +" and " ") separate the second MB from the label
MatchProcess(label, l) ==
  /\ l.kind = "proc"
  /\ l.pid # << >>
  /\ l.pid[Len(l.pid)] \in Digits
  /\ IsFigure(l.virt)
  /\ IsFigure(l.res)
  /\ l.gap >= 2
  /\ l.text = label

\* a slip that puts the capture group on the first (virtual) figure
SearchProcessMutant(label, text) ==
  IF \E i \in 1..Len(text) : MatchProcess(label, text[i])
  THEN LET i == CHOOSE i \in 1..Len(text) :
                  /\ MatchProcess(label, text[i])
                  /\ \A j \in 1..(i - 1) : ~MatchProcess(label, text[j])
       IN Some(FloatOf(text[i].virt))
  ELSE None

\* re.search(...) then float(match.group(1)): group 1 is the figure next
\* to the label, taken from the first matching line
SearchProcess(label, text) ==
  IF \E i \in 1..Len(text) : MatchProcess(label, text[i])
  THEN LET i == CHOOSE i \in 1..Len(text) :
                  /\ MatchProcess(label, text[i])
                  /\ \A j \in 1..(i - 1) : ~MatchProcess(label, text[j])
       IN Some(FloatOf(text[i].res))
  ELSE None

\* re.match('-+ Passenger processes -+', line): anchored at the line start
MatchBanner(l) ==
  /\ l.kind = "banner"
  /\ l.indent = 0
  /\ l.text = "Passenger processes"

\* re.match('### Total private dirty RSS: (\d+\.?\d+) MB', line)
MatchTotal(l) ==
  /\ l.kind = "total"
  /\ l.indent = 0
  /\ IsFigure(l.res)

(* ------------------------ generated outputs --------------------------- *)
SeqsUpTo(S, n) == UNION {[1..k -> S] : k \in 0..n}

RECURSIVE Flatten(_)
Flatten(ss) == IF ss = << >> THEN << >> ELSE Head(ss) \o Flatten(Tail(ss))

ExitStatuses == {0, 256}

HeaderFields ==
  { Field("Max pool size", 1, 1, <<"1", "0">>),
    Field("Max pool size", 1, 1, <<"2">>),
    Field("Processes", 5, 1, <<"3">>),
    Field("Requests in top-level queue", 1, 1, <<"0">>),
    Field("Requests in queue", 0, 1, <<"5">>) }

ProcEntry(s, p) ==
  << Field("Sessions", 0, 1, s), Field("Processed", 0, 1, p) >>

ProcEntries ==
  { ProcEntry(<<"0">>, <<"6", "4">>), ProcEntry(<<"0">>, <<"6", "7">>),
    ProcEntry(<<"0">>, <<"6", "1">>), ProcEntry(<<"2">>, <<"6", "4">>) }

StatusTexts(e) ==
  IF e = "run"
  THEN { h \o Flatten(p) : h \in SeqsUpTo(HeaderFields, RunMaxFields),
                           p \in SeqsUpTo(ProcEntries, RunMaxFields) }
  ELSE { h \o Flatten(p) : h \in SeqsUpTo(HeaderFields, MaxHeader),
                           p \in SeqsUpTo(ProcEntries, MaxProcs) }

MemoryLines ==
  { ProcLine(<<"2", "0", "9", "9", "8">>, <<"2", "2", ".", "9">>,
             <<"0", ".", "3">>, 3, "PassengerWatchdog"),
    ProcLine(<<"2", "0", "9", "9", "9">>, <<"3", "0", ".", "1">>,
             <<"1", ".", "5">>, 3, "PassengerWatchdog"),
    ProcLine(<<"2", "0", "9", "9", "7">>, <<"2", "2", ".", "9">>,
             <<"0", ".", "4">>, 1, "PassengerWatchdog"),
    ProcLine(<<"2", "1", "0", "0", "1">>, <<"1", "2", "6", ".", "4">>,
             <<"6", ".", "8">>, 2, "PassengerHelperAgent"),
    ProcLine(<<"2", "1", "0", "1", "6">>, <<"7", "0", ".", "5">>,
             <<"0", ".", "8">>, 3, "PassengerLoggingAgent"),
    BannerLine(0, "Passenger processes"),
    BannerLine(0, "Apache processes"),
    TotalLine(0, <<"2", "2", "6", "6", ".", "2", "3">>),
    TotalLine(0, <<"1", "2", ".", "5">>),
    TotalLine(0, <<"7">>) }

MemoryTexts(e) ==
  IF e = "run" THEN SeqsUpTo(MemoryLines, RunMaxLines)
  ELSE SeqsUpTo(MemoryLines, MaxLines)

(* --------------------------- state ------------------------------------ *)
Entries == {"run", "status", "memory"}

LogEntry(level, msg, val) == [level |-> level, msg |-> msg, val |-> val]

Init ==
  /\ entry \in Entries
  /\ pc = "start"
  /\ cmd_status = 0
  /\ out = << >>
  /\ stats = << >>
  /\ in_passenger_processes = FALSE
  /\ idx = 0
  /\ run_stats = << >>
  /\ log = << >>
  /\ cmds = << >>
  /\ exc = "none"

(* ------------------------------ run() --------------------------------- *)
\* stats = {}
RunBegin ==
  /\ pc = "start"
  /\ entry = "run"
  /\ run_stats' = << >>
  /\ pc' = "status_cmd"
  /\ UNCHANGED <<entry, cmd_status, out, stats, in_passenger_processes, idx,
                 log, cmds, exc>>

(* ----------------------- get_passenger_status() ----------------------- *)
\* the stats literal and commands.getstatusoutput(PASSENGER_STATUS_CMD)
StatusCommand ==
  /\ \/ pc = "status_cmd"
     \/ pc = "start" /\ entry = "status"
  /\ stats' = InitialStatusStats
  /\ cmds' = Append(cmds, PASSENGER_STATUS_CMD)
  /\ \E s \in ExitStatuses, o \in StatusTexts(entry) :
       /\ cmd_status' = s
       /\ out' = o
  /\ pc' = "status_check"
  /\ UNCHANGED <<entry, in_passenger_processes, idx, run_stats, log, exc>>

\* a slip that returns on failure without the error log entry
StatusFailedMutant ==
  /\ pc = "status_check"
  /\ CommandFailed(cmd_status)
  /\ pc' = "status_ret"
  /\ UNCHANGED <<entry, cmd_status, out, stats, in_passenger_processes, idx,
                 run_stats, log, cmds, exc>>

\* if status != 0: log the error and return the untouched stats
StatusFailed ==
  /\ pc = "status_check"
  /\ CommandFailed(cmd_status)
  /\ log' = Append(log, LogEntry("error", PASSENGER_STATUS_CMD, None))
  /\ pc' = "status_ret"
  /\ UNCHANGED <<entry, cmd_status, out, stats, in_passenger_processes, idx,
                 run_stats, cmds, exc>>

ScrapeMaxPoolSize ==
  /\ pc = "status_check"
  /\ ~CommandFailed(cmd_status)
  /\ LET v == SearchSpaced("Max pool size", out)
     IN /\ stats' = [stats EXCEPT !["max_pool_size"] = v]
        /\ log' = Append(log, LogEntry("debug", "max_pool_size", v))
  /\ pc' = "processes"
  /\ UNCHANGED <<entry, cmd_status, out, in_passenger_processes, idx,
                 run_stats, cmds, exc>>

ScrapeProcesses ==
  /\ pc = "processes"
  /\ LET v == SearchSpaced("Processes", out)
     IN /\ stats' = [stats EXCEPT !["processes"] = v]
        /\ log' = Append(log, LogEntry("debug", "processes", v))
  /\ pc' = "requests"
  /\ UNCHANGED <<entry, cmd_status, out, in_passenger_processes, idx,
                 run_stats, cmds, exc>>

ScrapeRequestsInTopQueue ==
  /\ pc = "requests"
  /\ LET v == SearchSpaced("Requests in top-level queue", out)
     IN /\ stats' = [stats EXCEPT !["requests_in_top_queue"] = v]
        /\ log' = Append(log, LogEntry("debug", "requests_in_top_queue", v))
  /\ pc' = "sessions"
  /\ UNCHANGED <<entry, cmd_status, out, in_passenger_processes, idx,
                 run_stats, cmds, exc>>

SumSessions ==
  /\ pc = "sessions"
  /\ LET v == Some(SumFindall("Sessions", out))
     IN /\ stats' = [stats EXCEPT !["active_sessions"] = v]
        /\ log' = Append(log, LogEntry("debug", "active_sessions", v))
  /\ pc' = "processed"
  /\ UNCHANGED <<entry, cmd_status, out, in_passenger_processes, idx,
                 run_stats, cmds, exc>>

SumProcessed ==
  /\ pc = "processed"
  /\ LET v == Some(SumFindall("Processed", out))
     IN /\ stats' = [stats EXCEPT !["total_processed_count"] = v]
        /\ log' = Append(log, LogEntry("debug", "total_processed_count", v))
  /\ pc' = "available"
  /\ UNCHANGED <<entry, cmd_status, out, in_passenger_processes, idx,
                 run_stats, cmds, exc>>

\* the subtraction, its debug line and "return stats"; None - int raises
\* TypeError, which nothing in the module catches
ComputeAvailable ==
  /\ pc = "available"
  /\ IF CanSubtract(stats["max_pool_size"], stats["active_sessions"])
     THEN LET v == Some(stats["max_pool_size"][1] - stats["active_sessions"][1])
          IN /\ stats' = [stats EXCEPT !["available_pool_size"] = v]
             /\ log' = Append(log, LogEntry("debug", "available_pool_size", v))
             /\ pc' = "status_ret"
             /\ exc' = exc
     ELSE /\ exc' = "TypeError"
          /\ pc' = "raised"
          /\ UNCHANGED <<stats, log>>
  /\ UNCHANGED <<entry, cmd_status, out, in_passenger_processes, idx,
                 run_stats, cmds>>

\* run(): stats.update(self.get_passenger_status())
RunUpdateStatus ==
  /\ pc = "status_ret"
  /\ entry = "run"
  /\ run_stats' = Update(run_stats, stats)
  /\ pc' = "memory_cmd"
  /\ UNCHANGED <<entry, cmd_status, out, stats, in_passenger_processes, idx,
                 log, cmds, exc>>

(* -------------------- get_passenger_memory_stats() -------------------- *)
\* the stats literal and commands.getstatusoutput(PASSENGER_MEMORY_STATS_CMD)
MemoryCommand ==
  /\ \/ pc = "memory_cmd"
     \/ pc = "start" /\ entry = "memory"
  /\ stats' = InitialMemoryStats
  /\ cmds' = Append(cmds, PASSENGER_MEMORY_STATS_CMD)
  /\ \E s \in ExitStatuses, o \in MemoryTexts(entry) :
       /\ cmd_status' = s
       /\ out' = o
  /\ pc' = "memory_check"
  /\ UNCHANGED <<entry, in_passenger_processes, idx, run_stats, log, exc>>

\* if status != 0: log the error and return the untouched stats
MemoryFailed ==
  /\ pc = "memory_check"
  /\ CommandFailed(cmd_status)
  /\ log' = Append(log, LogEntry("error", PASSENGER_MEMORY_STATS_CMD, None))
  /\ pc' = "memory_ret"
  /\ UNCHANGED <<entry, cmd_status, out, stats, in_passenger_processes, idx,
                 run_stats, cmds, exc>>

ScrapeWatchdog ==
  /\ pc = "memory_check"
  /\ ~CommandFailed(cmd_status)
  /\ LET v == SearchProcess("PassengerWatchdog", out)
     IN /\ stats' = [stats EXCEPT !["passenger_watchdog_rss_mb"] = v]
        /\ log' = Append(log, LogEntry("debug", "passenger_watchdog_rss_mb", v))
  /\ pc' = "helper_agent"
  /\ UNCHANGED <<entry, cmd_status, out, in_passenger_processes, idx,
                 run_stats, cmds, exc>>

ScrapeHelperAgent ==
  /\ pc = "helper_agent"
  /\ LET v == SearchProcess("PassengerHelperAgent", out)
     IN /\ stats' = [stats EXCEPT !["passenger_helper_agent_rss_mb"] = v]
        /\ log' = Append(log,
                         LogEntry("debug", "passenger_helper_agent_rss_mb", v))
  /\ pc' = "logging_agent"
  /\ UNCHANGED <<entry, cmd_status, out, in_passenger_processes, idx,
                 run_stats, cmds, exc>>

ScrapeLoggingAgent ==
  /\ pc = "logging_agent"
  /\ LET v == SearchProcess("PassengerLoggingAgent", out)
     IN /\ stats' = [stats EXCEPT !["passenger_logging_agent_rss_mb"] = v]
        /\ log' = Append(log,
                         LogEntry("debug", "passenger_logging_agent_rss_mb", v))
  /\ pc' = "scan_begin"
  /\ UNCHANGED <<entry, cmd_status, out, in_passenger_processes, idx,
                 run_stats, cmds, exc>>

\* in_passenger_processes = False; the iterator over out.splitlines()
ScanBegin ==
  /\ pc = "scan_begin"
  /\ in_passenger_processes' = FALSE
  /\ idx' = 1
  /\ pc' = "scan"
  /\ UNCHANGED <<entry, cmd_status, out, stats, run_stats, log, cmds, exc>>

\* a slip that drops the "continue": lines are tested for the total while
\* the banner has not been seen
ScanLineMutant ==
  /\ pc = "scan"
  /\ idx <= Len(out)
  /\ in_passenger_processes' =
       IF ~in_passenger_processes THEN MatchBanner(out[idx])
       ELSE in_passenger_processes
  /\ LET v == IF MatchTotal(out[idx]) THEN Some(FloatOf(out[idx].res))
              ELSE stats["total_private_dirty_rss_mb"]
     IN /\ stats' = [stats EXCEPT !["total_private_dirty_rss_mb"] = v]
        /\ log' = Append(log,
                         LogEntry("debug", "total_private_dirty_rss_mb", v))
  /\ idx' = idx + 1
  /\ UNCHANGED <<entry, pc, cmd_status, out, run_stats, cmds, exc>>

\* one iteration of the loop body on line out[idx]
ScanLine ==
  /\ pc = "scan"
  /\ idx <= Len(out)
  /\ IF ~in_passenger_processes
     THEN /\ in_passenger_processes' = MatchBanner(out[idx])
          /\ UNCHANGED <<stats, log>>
     ELSE LET v == IF MatchTotal(out[idx]) THEN Some(FloatOf(out[idx].res))
                   ELSE stats["total_private_dirty_rss_mb"]
          IN /\ stats' = [stats EXCEPT !["total_private_dirty_rss_mb"] = v]
             /\ log' = Append(log,
                              LogEntry("debug", "total_private_dirty_rss_mb", v))
             /\ UNCHANGED in_passenger_processes
  /\ idx' = idx + 1
  /\ UNCHANGED <<entry, pc, cmd_status, out, run_stats, cmds, exc>>

\* the loop is exhausted: return stats
ScanEnd ==
  /\ pc = "scan"
  /\ idx > Len(out)
  /\ pc' = "memory_ret"
  /\ UNCHANGED <<entry, cmd_status, out, stats, in_passenger_processes, idx,
                 run_stats, log, cmds, exc>>

\* run(): stats.update(self.get_passenger_memory_stats()); return stats
RunUpdateMemory ==
  /\ pc = "memory_ret"
  /\ entry = "run"
  /\ run_stats' = Update(run_stats, stats)
  /\ pc' = "done"
  /\ UNCHANGED <<entry, cmd_status, out, stats, in_passenger_processes, idx,
                 log, cmds, exc>>

Next ==
  \/ RunBegin
  \/ StatusCommand
  \/ StatusFailed
  \/ ScrapeMaxPoolSize
  \/ ScrapeProcesses
  \/ ScrapeRequestsInTopQueue
  \/ SumSessions
  \/ SumProcessed
  \/ ComputeAvailable
  \/ RunUpdateStatus
  \/ MemoryCommand
  \/ MemoryFailed
  \/ ScrapeWatchdog
  \/ ScrapeHelperAgent
  \/ ScrapeLoggingAgent
  \/ ScanBegin
  \/ ScanLine
  \/ ScanEnd
  \/ RunUpdateMemory

Spec == Init /\ [][Next]_vars
(* ====================== properties of the probe ======================= *)
PoolKeys == {"max_pool_size", "processes", "requests_in_top_queue",
             "active_sessions", "available_pool_size",
             "total_processed_count"}
RssKeys == {"passenger_watchdog_rss_mb", "passenger_helper_agent_rss_mb",
            "passenger_logging_agent_rss_mb", "total_private_dirty_rss_mb"}
TenKeys == PoolKeys \cup RssKeys

\* locations at which cmd_status and out are those of the pool-status command
StatusPcs == {"status_check", "processes", "requests", "sessions",
              "processed", "available", "status_ret", "raised"}
\* locations at which cmd_status and out are those of the memory command
MemoryPcs == {"memory_check", "helper_agent", "logging_agent", "scan_begin",
              "scan", "memory_ret", "done"}

AllNone(d, keys) == DOMAIN d = keys /\ \A k \in keys : d[k] = None

LastLogIsError(cmd) ==
  /\ log # << >>
  /\ log[Len(log)].level = "error"
  /\ log[Len(log)].msg = cmd

ExampleStatusText ==
  << Field("Max pool size", 1, 1, <<"1", "0">>) >>
    \o ProcEntry(<<"0">>, <<"6", "4">>)
    \o ProcEntry(<<"0">>, <<"6", "7">>)
    \o ProcEntry(<<"0">>, <<"6", "1">>)

WatchdogLine ==
  ProcLine(<<"2", "0", "9", "9", "8">>, <<"2", "2", ".", "9">>,
           <<"0", ".", "3">>, 3, "PassengerWatchdog")
SecondWatchdogLine ==
  ProcLine(<<"2", "0", "9", "9", "9">>, <<"3", "0", ".", "1">>,
           <<"1", ".", "5">>, 3, "PassengerWatchdog")

\* C1: whatever the two commands return, run() ends by returning a mapping
\* whose key set is exactly the ten metric keys.
C1_RunReturnsTenKeys ==
  (entry = "run" /\ pc \in {"done", "raised"}) =>
    /\ pc = "done"
    /\ exc = "none"
    /\ DOMAIN run_stats = TenKeys

\* C2: when the status command succeeded, get_passenger_status ends without
\* raising, with available_pool_size = max_pool_size - active_sessions when
\* both are known and None when either is unknown.
C2_AvailableGuarded ==
  (pc \in {"status_ret", "raised"} /\ cmd_status = 0) =>
    /\ pc = "status_ret"
    /\ exc = "none"
    /\ IF stats["max_pool_size"] # None /\ stats["active_sessions"] # None
       THEN stats["available_pool_size"] =
              Some(stats["max_pool_size"][1] - stats["active_sessions"][1])
       ELSE stats["available_pool_size"] = None

\* C3: after a non-zero exit of the status command the operation goes
\* straight to its return, raising nothing, with all six pool keys present
\* and None whatever the text holds, and with an error entry logged that
\* names the command.
C3_StatusFailureDegrades ==
  (pc \in StatusPcs /\ cmd_status # 0) =>
    /\ pc \in {"status_check", "status_ret"}
    /\ exc = "none"
    /\ AllNone(stats, PoolKeys)
    /\ pc = "status_ret" => LastLogIsError(PASSENGER_STATUS_CMD)

C3_Witness ==
  /\ entry = "status"
  /\ pc = "status_ret"
  /\ cmd_status # 0
  /\ out = ExampleStatusText
  /\ AllNone(stats, PoolKeys)

\* C4: as long as no banner line is among the lines scanned so far, the
\* total stays None; so a total line ahead of the banner is ignored and a
\* text without a banner ends with the total None.
C4_TotalsBeforeBannerIgnored ==
  (pc \in {"scan", "memory_ret", "done"} /\ cmd_status = 0) =>
    ((\A j \in 1..(idx - 1) : ~MatchBanner(out[j])) =>
       stats["total_private_dirty_rss_mb"] = None)

C4_Witness ==
  /\ pc = "memory_ret"
  /\ cmd_status = 0
  /\ \E i \in 1..Len(out) :
       /\ MatchTotal(out[i])
       /\ \A j \in 1..(i - 1) : ~MatchBanner(out[j])
       /\ \E b \in (i + 1)..Len(out) : MatchBanner(out[b])
  /\ stats["total_private_dirty_rss_mb"] = None

\* C5: when total lines follow the banner, the returned total is the figure
\* of the first of them.
C5_FirstTotalAfterBanner ==
  (pc = "memory_ret" /\ cmd_status = 0) =>
    \A b \in 1..Len(out), t \in 1..Len(out) :
      ( /\ MatchBanner(out[b])
        /\ \A j \in 1..(b - 1) : ~MatchBanner(out[j])
        /\ t > b
        /\ MatchTotal(out[t])
        /\ \A j \in (b + 1)..(t - 1) : ~MatchTotal(out[j]) )
      => stats["total_private_dirty_rss_mb"] = Some(FloatOf(out[t].res))

\* C6: when the status command succeeded, the operation returns a result in
\* which every one of the five scraped patterns that has no match in the
\* text has its key present with value None.
C6_UnmatchedKeysAbsent ==
  (pc \in {"status_ret", "raised"} /\ cmd_status = 0) =>
    /\ pc = "status_ret"
    /\ DOMAIN stats = PoolKeys
    /\ (\A i \in 1..Len(out) : ~MatchSpaced("Max pool size", out[i]))
         => stats["max_pool_size"] = None
    /\ (\A i \in 1..Len(out) : ~MatchSpaced("Processes", out[i]))
         => stats["processes"] = None
    /\ (\A i \in 1..Len(out) :
          ~MatchSpaced("Requests in top-level queue", out[i]))
         => stats["requests_in_top_queue"] = None
    /\ (\A i \in 1..Len(out) : ~MatchTight("Sessions", out[i]))
         => stats["active_sessions"] = None
    /\ (\A i \in 1..Len(out) : ~MatchTight("Processed", out[i]))
         => stats["total_processed_count"] = None

\* the sum of N over the occurrences "key: N" among the first n fields
RECURSIVE OccurrenceSum(_, _, _)
OccurrenceSum(key, text, n) ==
  IF n = 0 THEN 0
  ELSE OccurrenceSum(key, text, n - 1)
         + (IF /\ text[n].key = key
               /\ text[n].pre = 0
               /\ text[n].post >= 1
               /\ text[n].val # << >>
               /\ AllDigits(text[n].val)
            THEN IntOf(text[n].val) ELSE 0)

\* C7: once the two sums are computed on a successful command,
\* active_sessions is the sum over every "Sessions: N" of the text and
\* total_processed_count the sum over every "Processed: N".
C7_SumsOverAllOccurrences ==
  (pc \in {"available", "status_ret", "raised"} /\ cmd_status = 0) =>
    /\ stats["active_sessions"] = Some(OccurrenceSum("Sessions", out, Len(out)))
    /\ stats["total_processed_count"] =
         Some(OccurrenceSum("Processed", out, Len(out)))

\* the example: Max pool size 10, three Sessions: 0, Processed: 64/67/61
C7_Witness ==
  /\ pc = "status_ret"
  /\ cmd_status = 0
  /\ out = ExampleStatusText
  /\ stats["active_sessions"] = Some(0)
  /\ stats["total_processed_count"] = Some(192)
  /\ stats["available_pool_size"] = Some(10)

\* C8: after a non-zero exit of the memory command the operation goes
\* straight to its return with exactly the four memory keys, all None,
\* whatever the text holds, and with an error entry logged that names the
\* command.
C8_MemoryFailureDegrades ==
  (pc \in MemoryPcs /\ cmd_status # 0) =>
    /\ pc \in {"memory_check", "memory_ret", "done"}
    /\ exc = "none"
    /\ AllNone(stats, RssKeys)
    /\ pc \in {"memory_ret", "done"} =>
         LastLogIsError(PASSENGER_MEMORY_STATS_CMD)

C8_Witness ==
  /\ entry = "memory"
  /\ pc = "memory_ret"
  /\ cmd_status # 0
  /\ \E i \in 1..Len(out) : out[i] = WatchdogLine
  /\ \E b \in 1..Len(out), t \in 1..Len(out) :
       b < t /\ MatchBanner(out[b]) /\ MatchTotal(out[t])
  /\ AllNone(stats, RssKeys)

LabelOf(k) ==
  CASE k = "passenger_watchdog_rss_mb" -> "PassengerWatchdog"
    [] k = "passenger_helper_agent_rss_mb" -> "PassengerHelperAgent"
    [] k = "passenger_logging_agent_rss_mb" -> "PassengerLoggingAgent"

\* C9: once the three process figures are scraped on a successful command,
\* each is the resident (second) figure of the first line of the pattern's
\* shape carrying its own label, and None when no line of that label has
\* the shape.
C9_ResidentFigureOfFirstLabelLine ==
  (pc \in {"scan_begin", "scan", "memory_ret", "done"} /\ cmd_status = 0) =>
    \A k \in RssKeys \ {"total_private_dirty_rss_mb"} :
      LET M == {i \in 1..Len(out) : MatchProcess(LabelOf(k), out[i])}
      IN IF M = {} THEN stats[k] = None
         ELSE \E i \in M :
                /\ \A j \in M : i <= j
                /\ stats[k] = Some(FloatOf(out[i].res))

\* 20998 22.9 MB 0.3 MB PassengerWatchdog gives 0.3, also when a second
\* watchdog line follows
C9_Witness ==
  /\ pc = "memory_ret"
  /\ cmd_status = 0
  /\ Len(out) >= 2
  /\ out[1] = WatchdogLine
  /\ out[2] = SecondWatchdogLine
  /\ stats["passenger_watchdog_rss_mb"] = Some(30)
  /\ stats["passenger_helper_agent_rss_mb"] = None

\* what get_passenger_status returns as a function of its command's outcome
ExpectedPool(s, t) ==
  IF s # 0 THEN [k \in PoolKeys |-> None]
  ELSE [k \in PoolKeys |->
         CASE k = "max_pool_size" -> SearchSpaced("Max pool size", t)
           [] k = "processes" -> SearchSpaced("Processes", t)
           [] k = "requests_in_top_queue" ->
                SearchSpaced("Requests in top-level queue", t)
           [] k = "active_sessions" -> Some(SumFindall("Sessions", t))
           [] k = "total_processed_count" -> Some(SumFindall("Processed", t))
           [] k = "available_pool_size" ->
                Some(SearchSpaced("Max pool size", t)[1]
                       - SumFindall("Sessions", t))]

\* the figure of the last total line after the first banner line
ExpectedTotal(t) ==
  LET T == {i \in 1..Len(t) :
              /\ MatchTotal(t[i])
              /\ \E b \in 1..(i - 1) : MatchBanner(t[b])}
  IN IF T = {} THEN None
     ELSE Some(FloatOf(t[CHOOSE i \in T : \A j \in T : j <= i].res))

\* what get_passenger_memory_stats returns as a function of its outcome
ExpectedMemory(s, t) ==
  IF s # 0 THEN [k \in RssKeys |-> None]
  ELSE [k \in RssKeys |->
         IF k = "total_private_dirty_rss_mb" THEN ExpectedTotal(t)
         ELSE SearchProcess(LabelOf(k), t)]

\* C10: in run() each group's values are a function of its own command's
\* outcome alone: what either operation returns is the same function of its
\* outcome under run() as on its own; the pool values merged from the first
\* call are untouched by everything the memory operation does; the memory
\* values of the result are those the memory operation returned; and after a
\* failed status command the next thing run() does is the memory command.
C10_GroupsIndependent ==
  /\ [](pc = "status_ret" => stats = ExpectedPool(cmd_status, out))
  /\ [](pc \in {"memory_ret", "done"} =>
          stats = ExpectedMemory(cmd_status, out))
  /\ []((entry = "run" /\ pc = "memory_cmd") =>
          run_stats = ExpectedPool(cmd_status, out))
  /\ []((entry = "run" /\ pc = "done") =>
          /\ DOMAIN run_stats = TenKeys
          /\ \A k \in RssKeys : run_stats[k] = stats[k]
          /\ cmds = <<PASSENGER_STATUS_CMD, PASSENGER_MEMORY_STATS_CMD>>)
  /\ [][(entry = "run" /\ pc \in MemoryPcs \cup {"memory_cmd"}) =>
          \A k \in PoolKeys :
            /\ k \in DOMAIN run_stats'
            /\ run_stats'[k] = run_stats[k]]_vars
  /\ [][(entry = "run" /\ pc = "status_ret" /\ cmd_status # 0) =>
          pc' = "memory_cmd"]_vars
  /\ [][(entry = "run" /\ pc = "memory_cmd") =>
          /\ pc' = "memory_check"
          /\ cmds' = Append(cmds, PASSENGER_MEMORY_STATS_CMD)]_vars

\* the status command failed, the memory command succeeded and its
\* watchdog figure is in the merged result
C10_Witness ==
  /\ entry = "run"
  /\ pc = "done"
  /\ log[1].level = "error"
  /\ log[1].msg = PASSENGER_STATUS_CMD
  /\ cmd_status = 0
  /\ out = <<WatchdogLine>>
  /\ run_stats["max_pool_size"] = None
  /\ run_stats["passenger_watchdog_rss_mb"] = Some(30)
====
